---- MODULE Spec2Model ----
(***************************************************************************)
(* Model of aleph/model/crawler_state.py: the CrawlerState ledger of       *)
(* per-item crawl outcomes and the statistics derived from it.             *)
(*                                                                         *)
(* The table is a sequence of rows in insertion order; the BigInteger      *)
(* primary key of a row is its position.  created_at is the value of the   *)
(* clock `now` when the row is inserted (column default datetime.utcnow).  *)
(* Time is counted in minutes.                                             *)
(*                                                                         *)
(* store_stub, store_ok and store_fail add the object to db.session and    *)
(* neither flush nor commit.  The first group of operations is the program *)
(* as one session sees it, where a row is in the table as soon as it was   *)
(* added.  The second group has several sessions: an added object is       *)
(* INSERTed when its session next queries (autoflush) or commits, and it   *)
(* is seen by the other sessions once its session has committed; every     *)
(* query of crawler_stats is a statement of its own (READ COMMITTED).      *)
(***************************************************************************)
EXTENDS Integers, Sequences, FiniteSets, TLC

VARIABLES ledger, now, res, pending, txn, call

(* the sessions of the processes that share the table: what a session has *)
(* added and not yet flushed, the keys of the rows of its open            *)
(* transaction, and its call of crawler_stats in progress                 *)
sessvars == <<pending, txn, call>>

vars == <<ledger, now, res, pending, txn, call>>

-----------------------------------------------------------------------------
(* Bounds of the model *)

MaxRecords == 3

MaxNow == 60

(* the steps, in minutes, by which the clock is seen to advance *)
TickSteps == { 60 }

-----------------------------------------------------------------------------
(* Program constants *)

TIMEOUT == 60

STATUS_OK == "ok"

STATUS_FAIL == "fail"

(* Python's None in a string-valued column *)
None == "None"

(* Python's None where a datetime is expected *)
NoTime == -1

(* the primary key of an object that was not inserted yet *)
NoId == 0

(* the JSONB column meta: <<>> is NULL, <<m>> holds the mapping m *)
NoMeta == <<>>

-----------------------------------------------------------------------------
(* Inputs *)

CollectionIds == {1}

Crawlers == { "crawlerA", "crawlerB" }

(* the arguments of the store_stub calls *)
StubCalls ==
    { [ collection_id |-> c, crawler_id |-> "crawlerA", crawler_run |-> r ] :
          c \in CollectionIds, r \in { "run1", "run2" } }

(* an item descriptor (the `meta` argument of store_ok and store_fail) *)
Meta(crawler, crawler_run) ==
    [ crawler |-> crawler, crawler_run |-> crawler_run,
      foreign_id |-> "f1", content_hash |-> "h1" ]

(* the descriptors store_ok is called with: items of a run, and an item *)
(* reported outside any run                                             *)
OkMetas ==
    { Meta("crawlerA", "run1"), Meta("crawlerA", "run2"),
      Meta("crawlerA", None) }

(* the descriptors store_fail is called with *)
FailMetas ==
    { Meta("crawlerA", "run1"), Meta("crawlerA", "run2"),
      Meta("crawlerB", "run1") }

(* the processes that share the table, and the run each of them reports *)
Procs == { "p1", "p2" }

RunOf(p) == IF p = "p1" THEN "run1" ELSE "run2"

(* <<error_type, error_message, error_details>> passed to store_fail *)
ErrorArgs == { <<"IOError", "msg", None>> }

(* a descriptor that has neither foreign id nor content hash nor run *)
BareMeta ==
    [ crawler |-> "crawlerA", crawler_run |-> None,
      foreign_id |-> None, content_hash |-> None ]

(* the reports whose records are looked at field by field: store_fail with *)
(* none, some and all of its optional arguments                            *)
RecordOkMetas == { Meta("crawlerA", "run1"), BareMeta }

RecordFailMetas == { Meta("crawlerA", "run1") }

RecordErrorArgs ==
    { <<None, None, None>>, <<"IOError", "msg", None>>,
      <<"init", None, "trace">>, <<"IOError", "msg", "trace">> }

-----------------------------------------------------------------------------
(* Rows *)

(* cls(): every column unset *)
NewObj ==
    [ id |-> NoId, status |-> None, crawler_id |-> None, crawler_run |-> None,
      content_hash |-> None, foreign_id |-> None, error_type |-> None,
      error_message |-> None, error_details |-> None, meta |-> NoMeta,
      collection_id |-> NoId, created_at |-> NoTime ]

(* expand_json(meta.to_attr_dict(compute=True)): the descriptor as a mapping *)
expand_json(meta) == meta

from_meta(meta, collection_id) ==
    [ NewObj EXCEPT !.collection_id = collection_id,
                    !.crawler_id = meta.crawler,
                    !.crawler_run = meta.crawler_run,
                    !.foreign_id = meta.foreign_id,
                    !.content_hash = meta.content_hash,
                    !.meta = <<expand_json(meta)>> ]

stub_obj(collection_id, crawler_id, crawler_run) ==
    [ NewObj EXCEPT !.collection_id = collection_id,
                    !.crawler_id = crawler_id,
                    !.crawler_run = crawler_run,
                    !.error_type = "init",
                    !.status = STATUS_OK ]

ok_obj(meta, collection_id) ==
    [ from_meta(meta, collection_id) EXCEPT !.status = STATUS_OK ]

(* fail_obj that leaves error_details unset *)
fail_obj_NoDetails(meta, collection_id, error_type, error_message, error_details) ==
    [ from_meta(meta, collection_id) EXCEPT !.status = STATUS_FAIL,
                                            !.error_type = error_type,
                                            !.error_message = error_message ]

fail_obj(meta, collection_id, error_type, error_message, error_details) ==
    [ from_meta(meta, collection_id) EXCEPT !.status = STATUS_FAIL,
                                            !.error_type = error_type,
                                            !.error_message = error_message,
                                            !.error_details = error_details ]

(* Inserted that gives every row the key 1 *)
Inserted_SameKey(L, obj, t) == [ obj EXCEPT !.id = 1, !.created_at = t ]

(* the row the table holds for obj: the next key of the sequence and the *)
(* column default of created_at *)
Inserted(L, obj, t) == [ obj EXCEPT !.id = Len(L) + 1, !.created_at = t ]

(* session_add that overwrites the newest row instead of adding one *)
session_add_Overwrite(L, obj, t) ==
    IF L = <<>>
    THEN <<Inserted(L, obj, t)>>
    ELSE [ L EXCEPT ![Len(L)] = [ obj EXCEPT !.id = Len(L), !.created_at = t ] ]

(* db.session.add(obj), as the session's later queries see the table *)
session_add(L, obj, t) == Append(L, Inserted(L, obj, t))

-----------------------------------------------------------------------------
(* Queries, as functions of a table L *)

(* ByCrawler without the filter on crawler_id *)
ByCrawler_NoFilter(L, crawler_id) == DOMAIN L

(* filter(cls.crawler_id == crawler_id) *)
ByCrawler(L, crawler_id) == { i \in DOMAIN L : L[i].crawler_id = crawler_id }

(* order_by(created_at.desc()).limit(1): the rows the database may return *)
(* first; rows of equal created_at are in no defined order               *)
FirstByCreatedDesc(L, rows) ==
    { i \in rows : \A j \in rows : L[j].created_at <= L[i].created_at }

(* the values crawler_last_run may return *)
LastRunResults(L, crawler_id) ==
    LET rows == ByCrawler(L, crawler_id) IN
    IF rows = {}
    THEN { <<None, NoTime>> }
    ELSE { <<L[i].crawler_run, L[i].created_at>> :
               i \in FirstByCreatedDesc(L, rows) }

(* truth value of a run id: None and the empty string are false *)
Truthy(x) == x # None /\ x # ""

(* Running with >= in place of > *)
Running_Inclusive(last_run_time, t) ==
    IF last_run_time # NoTime THEN last_run_time >= t - TIMEOUT ELSE FALSE

(* last_run_time > timeout if last_run_time else False *)
Running(last_run_time, t) ==
    IF last_run_time # NoTime THEN last_run_time > t - TIMEOUT ELSE FALSE

(* SectionRows that does not narrow section 'last' to the last run *)
SectionRows_NoRunFilter(L, crawler_id, section, last_run_id) ==
    ByCrawler(L, crawler_id)

(* SectionRows that narrows section 'all' and not section 'last' *)
SectionRows_Swapped(L, crawler_id, section, last_run_id) ==
    { i \in ByCrawler(L, crawler_id) :
          section = "all" => L[i].crawler_run = last_run_id }

(* SectionRows that narrows both sections to the last run *)
SectionRows_AlwaysLastRun(L, crawler_id, section, last_run_id) ==
    { i \in ByCrawler(L, crawler_id) : L[i].crawler_run = last_run_id }

(* sq: q, narrowed to the last run in section 'last' *)
SectionRows(L, crawler_id, section, last_run_id) ==
    { i \in ByCrawler(L, crawler_id) :
          section = "last" => L[i].crawler_run = last_run_id }

(* CountStatus without the filter on status *)
CountStatus_AnyStatus(L, rows, status) == Cardinality(rows)

(* func.count(cls.id) of sq.filter(cls.status == status) *)
CountStatus(L, rows, status) ==
    Cardinality({ i \in rows : L[i].status = status })

(* OkValue without the correction for the stub *)
OkValue_NoStubCorrection(n, last_run_id) ==
    IF Truthy(last_run_id) THEN n ELSE 0

(* okq.scalar() - 1 if last_run_id else 0 *)
OkValue(n, last_run_id) == IF Truthy(last_run_id) THEN n - 1 ELSE 0

(* FailValue that does not test last_run_id *)
FailValue_Unconditional(n, last_run_id) == n

(* failq.scalar() if last_run_id else 0 *)
FailValue(n, last_run_id) == IF Truthy(last_run_id) THEN n ELSE 0

SectionData(L, crawler_id, section, last_run_id) ==
    LET sq == SectionRows(L, crawler_id, section, last_run_id) IN
    [ ok   |-> OkValue(CountStatus(L, sq, STATUS_OK), last_run_id),
      fail |-> FailValue(CountStatus(L, sq, STATUS_FAIL), last_run_id) ]

(* the dictionary crawler_stats builds when crawler_last_run returned lr *)
StatsOf(L, crawler_id, t, lr) ==
    LET last_run_id   == lr[1]
        last_run_time == lr[2]
        last == SectionData(L, crawler_id, "last", last_run_id)
    IN  [ running |-> Running(last_run_time, t),
          last    |-> [ ok |-> last.ok, fail |-> last.fail,
                        updated |-> last_run_time, run_id |-> last_run_id ],
          all     |-> SectionData(L, crawler_id, "all", last_run_id) ]

(* to_dict that gives '' for an unset error_message *)
to_dict_EmptyForNone(self) ==
    [ id |-> self.id, status |-> self.status,
      crawler_id |-> self.crawler_id, crawler_run |-> self.crawler_run,
      content_hash |-> self.content_hash, foreign_id |-> self.foreign_id,
      error_type |-> self.error_type,
      error_message |->
          IF self.error_message = None THEN "" ELSE self.error_message,
      error_details |-> self.error_details, meta |-> self.meta,
      collection_id |-> self.collection_id, created_at |-> self.created_at ]

(* the dictionary of a row: its keys are the strings of lines 114-125 *)
to_dict(self) ==
    [ id |-> self.id, status |-> self.status,
      crawler_id |-> self.crawler_id, crawler_run |-> self.crawler_run,
      content_hash |-> self.content_hash, foreign_id |-> self.foreign_id,
      error_type |-> self.error_type, error_message |-> self.error_message,
      error_details |-> self.error_details, meta |-> self.meta,
      collection_id |-> self.collection_id, created_at |-> self.created_at ]

(* the sequences that list every element of S once *)
RECURSIVE Orders(_)
Orders(S) ==
    IF S = {}
    THEN { <<>> }
    ELSE UNION { { <<x>> \o p : p \in Orders(S \ {x}) } : x \in S }

(* the orders in which a query without ORDER BY may return n rows: any *)
RowOrders(n) == Orders(1..n)

-----------------------------------------------------------------------------
(* Operations *)

Init ==
    /\ ledger = <<>>
    /\ now = 0
    /\ res = [ op |-> "none" ]
    /\ pending = [ p \in Procs |-> <<>> ]
    /\ txn = [ p \in Procs |-> {} ]
    /\ call = [ p \in Procs |-> [ pc |-> "idle" ] ]

store_stub(collection_id, crawler_id, crawler_run) ==
    LET obj == stub_obj(collection_id, crawler_id, crawler_run) IN
    /\ Len(ledger) < MaxRecords
    /\ ledger' = session_add(ledger, obj, now)
    /\ res' = [ op |-> "store_stub",
                args |-> <<collection_id, crawler_id, crawler_run>>,
                obj |-> Inserted(ledger, obj, now) ]
    /\ UNCHANGED <<now, sessvars>>

store_ok(meta, collection_id) ==
    LET obj == ok_obj(meta, collection_id) IN
    /\ Len(ledger) < MaxRecords
    /\ ledger' = session_add(ledger, obj, now)
    /\ res' = [ op |-> "store_ok", args |-> <<meta, collection_id>>,
                obj |-> Inserted(ledger, obj, now) ]
    /\ UNCHANGED <<now, sessvars>>

store_fail(meta, collection_id, error_type, error_message, error_details) ==
    LET obj == fail_obj(meta, collection_id,
                        error_type, error_message, error_details) IN
    /\ Len(ledger) < MaxRecords
    /\ ledger' = session_add(ledger, obj, now)
    /\ res' = [ op |-> "store_fail",
                args |-> <<meta, collection_id,
                           error_type, error_message, error_details>>,
                obj |-> Inserted(ledger, obj, now) ]
    /\ UNCHANGED <<now, sessvars>>

crawler_last_run(crawler_id) ==
    /\ \E lr \in LastRunResults(ledger, crawler_id) :
           res' = [ op |-> "last_run", crawler_id |-> crawler_id,
                    run_id |-> lr[1], time |-> lr[2] ]
    /\ UNCHANGED <<ledger, now, sessvars>>

crawler_stats(crawler_id) ==
    /\ \E lr \in LastRunResults(ledger, crawler_id) :
           res' = [ op |-> "stats", crawler_id |-> crawler_id,
                    stats |-> StatsOf(ledger, crawler_id, now, lr) ]
    /\ UNCHANGED <<ledger, now, sessvars>>

all ==
    /\ \E p \in RowOrders(Len(ledger)) :
           res' = [ op |-> "all",
                    rows |-> [ i \in 1..Len(ledger) |-> ledger[p[i]] ] ]
    /\ UNCHANGED <<ledger, now, sessvars>>

(* to_dict() of the row of key id *)
row_to_dict(id) ==
    /\ id \in 1..Len(ledger)
    /\ res' = [ op |-> "to_dict", id |-> id, dict |-> to_dict(ledger[id]) ]
    /\ UNCHANGED <<ledger, now, sessvars>>

(* datetime.utcnow() moves on between two calls *)
Tick ==
    /\ \E d \in TickSteps : now + d <= MaxNow /\ now' = now + d
    /\ res' = [ op |-> "none" ]
    /\ UNCHANGED <<ledger, sessvars>>

-----------------------------------------------------------------------------
(* Operations of a process p that has a session of its own *)

(* the number of objects added so far, in the table or not *)
Added == Len(ledger) + Len(pending["p1"]) + Len(pending["p2"])

(* the rows session p reads: those committed and those of its transaction *)
Visible(p) == (1..Len(ledger)) \ UNION { txn[q] : q \in Procs \ {p} }

View(p) == [ i \in Visible(p) |-> ledger[i] ]

RECURSIVE Flushed(_, _, _)
(* the table after the INSERT of the objects objs, in the order of add *)
Flushed(L, objs, t) ==
    IF objs = <<>> THEN L
    ELSE Flushed(session_add(L, Head(objs), t), Tail(objs), t)

(* the flush of session p: the table, and the keys of p's transaction *)
FlushedTable(p) == Flushed(ledger, pending[p], now)

FlushedTxn(p) == txn[p] \cup (Len(ledger) + 1 .. Len(ledger) + Len(pending[p]))

(* the crawlers for which some store_stub has returned *)
StubbedCrawlers ==
    { ledger[i].crawler_id : i \in { j \in 1..Len(ledger) :
                                        ledger[j].error_type = "init" } }
    \cup UNION { { pending[p][i].crawler_id :
                     i \in { j \in 1..Len(pending[p]) :
                                 pending[p][j].error_type = "init" } } :
                 p \in Procs }

(* session_store_stub that refuses to start a run while the session reads *)
(* the stub of another run of the crawler                                 *)
session_store_stub_Exclusive(p, collection_id, crawler_id, crawler_run) ==
    /\ call[p].pc # "count"
    /\ Added < MaxRecords
    /\ ~ \E i \in Visible(p) :
            /\ ledger[i].crawler_id = crawler_id
            /\ ledger[i].error_type = "init"
            /\ ledger[i].crawler_run # crawler_run
    /\ pending' = [ pending EXCEPT ![p] =
           Append(@, stub_obj(collection_id, crawler_id, crawler_run)) ]
    /\ UNCHANGED <<ledger, now, res, txn, call>>

session_store_stub(p, collection_id, crawler_id, crawler_run) ==
    /\ call[p].pc # "count"
    /\ Added < MaxRecords
    /\ pending' = [ pending EXCEPT ![p] =
           Append(@, stub_obj(collection_id, crawler_id, crawler_run)) ]
    /\ UNCHANGED <<ledger, now, res, txn, call>>

session_store_fail(p, meta, collection_id, error_type, error_message, error_details) ==
    /\ call[p].pc # "count"
    /\ Added < MaxRecords
    /\ pending' = [ pending EXCEPT ![p] =
           Append(@, fail_obj(meta, collection_id,
                              error_type, error_message, error_details)) ]
    /\ UNCHANGED <<ledger, now, res, txn, call>>

(* db.session.commit() by the caller of the store_ functions *)
session_commit(p) ==
    /\ call[p].pc # "count"
    /\ pending[p] # <<>> \/ txn[p] # {}
    /\ ledger' = FlushedTable(p)
    /\ pending' = [ pending EXCEPT ![p] = <<>> ]
    /\ txn' = [ txn EXCEPT ![p] = {} ]
    /\ UNCHANGED <<now, res, call>>

(* crawler_stats up to line 90: the query of crawler_last_run, before it  *)
(* the autoflush of the session, and running.  seen0, t0 and stubbed0     *)
(* remember the rows the session could read, the clock and the crawlers   *)
(* with a stub when the call began.                                       *)
session_stats_begin(p, crawler_id) ==
    /\ call[p].pc # "count"
    /\ ledger' = FlushedTable(p)
    /\ pending' = [ pending EXCEPT ![p] = <<>> ]
    /\ txn' = [ txn EXCEPT ![p] = FlushedTxn(p) ]
    /\ LET seen == (1..Len(FlushedTable(p)))
                      \ UNION { txn[q] : q \in Procs \ {p} }
           V == [ i \in seen |-> FlushedTable(p)[i] ]
       IN  \E lr \in LastRunResults(V, crawler_id) :
               call' = [ call EXCEPT ![p] =
                   [ pc |-> "count", crawler_id |-> crawler_id,
                     run_id |-> lr[1], time |-> lr[2],
                     running |-> Running(lr[2], now), counts |-> <<>>,
                     seen0 |-> seen, seen1 |-> seen, t0 |-> now,
                     stubbed0 |-> crawler_id \in StubbedCrawlers ] ]
    /\ UNCHANGED <<now, res>>

(* the next of the four count queries of lines 96-103: section 'last' ok, *)
(* 'last' fail, 'all' ok, 'all' fail                                      *)
session_stats_count(p) ==
    /\ call[p].pc = "count"
    /\ LET c == call[p]
           k == Len(c.counts)
           section == IF k < 2 THEN "last" ELSE "all"
           sq == SectionRows(View(p), c.crawler_id, section, c.run_id)
           value == IF k % 2 = 0
                    THEN OkValue(CountStatus(View(p), sq, STATUS_OK), c.run_id)
                    ELSE FailValue(CountStatus(View(p), sq, STATUS_FAIL),
                                   c.run_id)
       IN  call' = [ call EXCEPT ![p].counts = Append(@, value),
                                 ![p].seen1 = Visible(p),
                                 ![p].pc = IF k = 3 THEN "done" ELSE "count" ]
    /\ UNCHANGED <<ledger, now, res, pending, txn>>

(* the dictionary a finished call returned *)
session_stats_result(p) ==
    LET c == call[p] IN
    [ running |-> c.running,
      last    |-> [ ok |-> c.counts[1], fail |-> c.counts[2],
                    updated |-> c.time, run_id |-> c.run_id ],
      all     |-> [ ok |-> c.counts[3], fail |-> c.counts[4] ] ]

(* the clock moves on while sessions are open *)
session_tick ==
    /\ \E d \in TickSteps : now + d <= MaxNow /\ now' = now + d
    /\ UNCHANGED <<ledger, res, sessvars>>

Next ==
    \/ \E a \in StubCalls :
           store_stub(a.collection_id, a.crawler_id, a.crawler_run)
    \/ \E m \in OkMetas, c \in CollectionIds : store_ok(m, c)
    \/ \E m \in FailMetas, c \in CollectionIds, e \in ErrorArgs :
           store_fail(m, c, e[1], e[2], e[3])
    \/ \E crawler_id \in Crawlers : crawler_last_run(crawler_id)
    \/ \E crawler_id \in Crawlers : crawler_stats(crawler_id)
    \/ all
    \/ Tick

Spec == Init /\ [][Next]_vars

(* The reports and the two statistics queries, without the listing: all *)
(* only reads, so the tables reached are those of Spec.                 *)
NextStats ==
    \/ \E a \in StubCalls :
           store_stub(a.collection_id, a.crawler_id, a.crawler_run)
    \/ \E m \in OkMetas, c \in CollectionIds : store_ok(m, c)
    \/ \E m \in FailMetas, c \in CollectionIds, e \in ErrorArgs :
           store_fail(m, c, e[1], e[2], e[3])
    \/ \E crawler_id \in Crawlers : crawler_last_run(crawler_id)
    \/ \E crawler_id \in Crawlers : crawler_stats(crawler_id)
    \/ Tick

SpecStats == Init /\ [][NextStats]_vars

(* The reports and the projection of a row *)
NextRecords ==
    \/ \E a \in StubCalls :
           store_stub(a.collection_id, a.crawler_id, a.crawler_run)
    \/ \E m \in RecordOkMetas, c \in CollectionIds : store_ok(m, c)
    \/ \E m \in RecordFailMetas, c \in CollectionIds, e \in RecordErrorArgs :
           store_fail(m, c, e[1], e[2], e[3])
    \/ \E id \in 1..MaxRecords : row_to_dict(id)
    \/ Tick

SpecRecords == Init /\ [][NextRecords]_vars

(* A reporter and a reader: p1 reports run1 of crawlerA and commits, p2 *)
(* asks for the statistics of crawlerA.                                *)
NextSnapshot ==
    \/ \E c \in CollectionIds :
           session_store_stub("p1", c, "crawlerA", RunOf("p1"))
    \/ \E c \in CollectionIds, e \in ErrorArgs :
           session_store_fail("p1", Meta("crawlerA", RunOf("p1")), c,
                              e[1], e[2], e[3])
    \/ session_commit("p1")
    \/ session_stats_begin("p2", "crawlerA")
    \/ session_stats_count("p2")
    \/ session_tick

SpecSnapshot == Init /\ [][NextSnapshot]_vars

(* Two reporters: p1 reports run1 and p2 run2 of crawlerA, each in a *)
(* session of its own.                                               *)
NextInserts ==
    \/ \E p \in Procs, c \in CollectionIds :
           session_store_stub(p, c, "crawlerA", RunOf(p))
    \/ \E p \in Procs, c \in CollectionIds, e \in ErrorArgs :
           session_store_fail(p, Meta("crawlerA", RunOf(p)), c,
                              e[1], e[2], e[3])
    \/ \E p \in Procs : session_commit(p)
    \/ session_tick

SpecInserts == Init /\ [][NextInserts]_vars

(* Two callers that ask whether crawlerA is running and start a run: *)
(* p1 starts run1, p2 starts run2.                                   *)
NextRuns ==
    \/ \E p \in Procs : session_stats_begin(p, "crawlerA")
    \/ \E p \in Procs : session_stats_count(p)
    \/ \E p \in Procs, c \in CollectionIds :
           session_store_stub(p, c, "crawlerA", RunOf(p))
    \/ \E p \in Procs : session_commit(p)

SpecRuns == Init /\ [][NextRuns]_vars

-----------------------------------------------------------------------------
(* Vocabulary of the properties.  res is the value the last call returned; *)
(* a report or a step of the clock replaces it, so a query result in res   *)
(* was computed on the current ledger at the current time.                 *)

StatsReturned(c) == res.op = "stats" /\ res.crawler_id = c

LastRunReturned(c) == res.op = "last_run" /\ res.crawler_id = c

(* the records of crawler c *)
RecordsOf(c) == { i \in 1..Len(ledger) : ledger[i].crawler_id = c }

(* the records of crawler c tagged with run r *)
RecordsOfRun(c, r) == { i \in RecordsOf(c) : ledger[i].crawler_run = r }

(* what RecordStub, RecordSuccess and RecordFailure leave in the ledger *)
IsStub(i) == ledger[i].status = STATUS_OK /\ ledger[i].error_type = "init"

IsSuccess(i) == ledger[i].status = STATUS_OK /\ ledger[i].error_type # "init"

IsFailure(i) == ledger[i].status = STATUS_FAIL

RunIdsOf(c) == { ledger[i].crawler_run : i \in RecordsOf(c) }

(* the greatest created_at among the records of c (which has records) *)
LatestTime(c) ==
    CHOOSE t \in { ledger[i].created_at : i \in RecordsOf(c) } :
        \A i \in RecordsOf(c) : ledger[i].created_at <= t

-----------------------------------------------------------------------------
(* C1: when the only record of a crawler is a stub of run r, inserted less *)
(* than TIMEOUT ago, Stats returns running = true, last.ok = 0,            *)
(* last.fail = 0 and last.runId = r.                                       *)
C1_StubThenStats ==
    \A c \in Crawlers :
        \A i \in RecordsOf(c) :
            ( /\ StatsReturned(c)
              /\ RecordsOf(c) = {i}
              /\ IsStub(i)
              /\ now - ledger[i].created_at < TIMEOUT )
            => /\ res.stats.running = TRUE
               /\ res.stats.last.ok = 0
               /\ res.stats.last.fail = 0
               /\ res.stats.last.run_id = ledger[i].crawler_run

C1_Witness ==
    /\ StatsReturned("crawlerA")
    /\ \E i \in RecordsOf("crawlerA") :
           /\ RecordsOf("crawlerA") = {i}
           /\ IsStub(i)
           /\ ledger[i].crawler_run = "run1"
           /\ now - ledger[i].created_at < TIMEOUT
    /\ res.stats.running
    /\ res.stats.last.run_id = "run1"

-----------------------------------------------------------------------------
OneRun(c) ==
    \E r \in RunIdsOf(c) :
        /\ r # None
        /\ RunIdsOf(c) = {r}
        /\ \E i \in RecordsOf(c) :
               /\ IsStub(i)
               /\ \A j \in RecordsOf(c) \ {i} : j > i /\ ~IsStub(j)

Successes(rows) == Cardinality({ i \in rows : IsSuccess(i) })

Failures(rows) == Cardinality({ i \in rows : IsFailure(i) })

(* C2: when the records of a crawler are one run, a stub followed by s     *)
(* successes and f failures all tagged with the same run id, Stats returns *)
(* last.ok = s, last.fail = f, all.ok = s and all.fail = f.                *)
C2_OneRunCounts ==
    \A c \in Crawlers :
        (StatsReturned(c) /\ OneRun(c))
        => /\ res.stats.last.ok = Successes(RecordsOf(c))
           /\ res.stats.last.fail = Failures(RecordsOf(c))
           /\ res.stats.all.ok = Successes(RecordsOf(c))
           /\ res.stats.all.fail = Failures(RecordsOf(c))

C2_Witness ==
    /\ StatsReturned("crawlerA")
    /\ OneRun("crawlerA")
    /\ Successes(RecordsOf("crawlerA")) = 1
    /\ Failures(RecordsOf("crawlerA")) = 1
    /\ res.stats.last = [ ok |-> 1, fail |-> 1,
                          updated |-> LatestTime("crawlerA"),
                          run_id |-> "run1" ]
    /\ res.stats.all = [ ok |-> 1, fail |-> 1 ]

-----------------------------------------------------------------------------
EveryRunStartedByOneStub(c) ==
    \A r \in RunIdsOf(c) :
        /\ r # None
        /\ \E i \in RecordsOfRun(c, r) :
               /\ IsStub(i)
               /\ \A j \in RecordsOfRun(c, r) \ {i} : j > i /\ ~IsStub(j)

(* C3: when every run of a crawler was started by one stub, the ok that    *)
(* Stats reports is the number of success records in the scope, in the     *)
(* scope 'last' and in the scope 'all'.                                    *)
C3_OkCountsSuccessesOnly ==
    \A c \in Crawlers :
        (StatsReturned(c) /\ RecordsOf(c) # {} /\ EveryRunStartedByOneStub(c))
        => /\ res.stats.last.ok =
                  Successes(RecordsOfRun(c, res.stats.last.run_id))
           /\ res.stats.all.ok = Successes(RecordsOf(c))

-----------------------------------------------------------------------------
WithStatus(rows, status) ==
    Cardinality({ i \in rows : ledger[i].status = status })

TwoRuns(c, r1, r2) ==
    /\ r1 # r2 /\ r1 # None /\ r2 # None
    /\ RunIdsOf(c) = {r1, r2}
    /\ \A i \in RecordsOfRun(c, r1), j \in RecordsOfRun(c, r2) :
           ledger[i].created_at < ledger[j].created_at

(* C4: when the records of a crawler are two runs and every record of the  *)
(* second is newer than every record of the first, Stats returns the       *)
(* second run as last.runId and counts its records alone in 'last' (the OK *)
(* records less one, and the FAIL records), and the records of both runs   *)
(* in 'all'.                                                               *)
C4_LastRunVersusAll ==
    \A c \in Crawlers :
        \A r1, r2 \in RunIdsOf(c) :
            (StatsReturned(c) /\ TwoRuns(c, r1, r2))
            => /\ res.stats.last.run_id = r2
               /\ res.stats.last.ok =
                      WithStatus(RecordsOfRun(c, r2), STATUS_OK) - 1
               /\ res.stats.last.fail =
                      WithStatus(RecordsOfRun(c, r2), STATUS_FAIL)
               /\ res.stats.all.ok = WithStatus(RecordsOf(c), STATUS_OK) - 1
               /\ res.stats.all.fail = WithStatus(RecordsOf(c), STATUS_FAIL)

C4_Witness ==
    /\ StatsReturned("crawlerA")
    /\ TwoRuns("crawlerA", "run1", "run2")
    /\ res.stats.last.run_id = "run2"
    /\ res.stats.last.ok = 1
    /\ res.stats.all.ok = 2

-----------------------------------------------------------------------------
(* C5: Stats returns running = true exactly when the crawler has a record  *)
(* and its most recent record is less than TIMEOUT old.                    *)
C5_RunningIffRecent ==
    \A c \in Crawlers :
        StatsReturned(c)
        => ( res.stats.running
             <=> ( /\ RecordsOf(c) # {}
                   /\ now - LatestTime(c) < TIMEOUT ) )

(* the most recent record is exactly TIMEOUT old *)
C5_Witness ==
    /\ StatsReturned("crawlerA")
    /\ RecordsOf("crawlerA") # {}
    /\ now - LatestTime("crawlerA") = TIMEOUT
    /\ res.stats.running = FALSE

-----------------------------------------------------------------------------
(* C6: LastRun returns the absent pair exactly when the crawler has no     *)
(* record, and a present timestamp whenever it has one.                    *)
C6_AbsentIffNoRecord ==
    \A c \in Crawlers :
        LastRunReturned(c)
        => /\ (res.run_id = None /\ res.time = NoTime) <=> RecordsOf(c) = {}
           /\ RecordsOf(c) # {} => res.time # NoTime

(* a run id is absent and the timestamp tells that a report was made *)
C6_Witness ==
    /\ LastRunReturned("crawlerA")
    /\ RecordsOf("crawlerA") # {}
    /\ res.run_id = None
    /\ res.time = LatestTime("crawlerA")

-----------------------------------------------------------------------------
Newest(c) ==
    CHOOSE i \in RecordsOf(c) :
        /\ ledger[i].created_at = LatestTime(c)
        /\ \A j \in RecordsOf(c) :
               ledger[j].created_at = LatestTime(c) => j <= i

(* C7: LastRun returns the crawler_run and created_at of the most recently *)
(* created record of the crawler, the one of highest id among those of the *)
(* greatest created_at, and Stats attaches this pair as last.runId and     *)
(* last.updated.                                                           *)
C7_LastRunIsNewestRecord ==
    \A c \in Crawlers :
        RecordsOf(c) # {}
        => /\ LastRunReturned(c)
                => /\ res.run_id = ledger[Newest(c)].crawler_run
                   /\ res.time = ledger[Newest(c)].created_at
           /\ StatsReturned(c)
                => /\ res.stats.last.run_id = ledger[Newest(c)].crawler_run
                   /\ res.stats.last.updated = ledger[Newest(c)].created_at

-----------------------------------------------------------------------------
(* C8: when the run id Stats found is absent, Stats returns ok = 0 and     *)
(* fail = 0 in both scopes, whatever records the crawler has.              *)
C8_NoRunIdAllZero ==
    \A c \in Crawlers :
        (StatsReturned(c) /\ res.stats.last.run_id = None)
        => /\ res.stats.last.ok = 0 /\ res.stats.last.fail = 0
           /\ res.stats.all.ok = 0 /\ res.stats.all.fail = 0

(* the crawler has a failure and a success on record *)
C8_Witness ==
    /\ StatsReturned("crawlerA")
    /\ res.stats.last.run_id = None
    /\ Failures(RecordsOf("crawlerA")) >= 1
    /\ Successes(RecordsOf("crawlerA")) >= 1
    /\ res.stats.all = [ ok |-> 0, fail |-> 0 ]

-----------------------------------------------------------------------------
(* C9: ListAll returns the records of the ledger, each once, in            *)
(* non-decreasing order of id.                                             *)
C9_ListAllInIdOrder ==
    res.op = "all"
    => /\ Len(res.rows) = Len(ledger)
       /\ \A k \in 1..Len(ledger) :
              Cardinality({ i \in 1..Len(res.rows) : res.rows[i] = ledger[k] })
                  = 1
       /\ \A i, j \in 1..Len(res.rows) :
              i < j => res.rows[i].id <= res.rows[j].id

-----------------------------------------------------------------------------
Reports == { "store_stub", "store_ok", "store_fail" }

(* C10: a report adds one record, the one it returns, after the records    *)
(* the ledger had and leaves these as they were; LastRun, Stats, ListAll   *)
(* and the passing of time leave the ledger as it was.                     *)
C10_AppendOnly ==
    [][ /\ res'.op \in Reports
            => /\ Len(ledger') = Len(ledger) + 1
               /\ SubSeq(ledger', 1, Len(ledger)) = ledger
               /\ ledger'[Len(ledger')] = res'.obj
        /\ res'.op \notin Reports => ledger' = ledger ]_vars

(* a failure was added to a ledger that held records *)
C10_Witness ==
    /\ res.op = "store_fail"
    /\ Len(ledger) >= 2
    /\ ledger[Len(ledger)] = res.obj
    /\ ledger[Len(ledger)].id = Len(ledger)

-----------------------------------------------------------------------------
(* C17: the ok and fail that Stats returns are never negative, in either   *)
(* the value the row of key id holds for each of the keys but the mapping *)
SameFields(d, row) ==
    /\ d.id = row.id
    /\ d.status = row.status
    /\ d.crawler_id = row.crawler_id
    /\ d.crawler_run = row.crawler_run
    /\ d.content_hash = row.content_hash
    /\ d.foreign_id = row.foreign_id
    /\ d.error_type = row.error_type
    /\ d.error_message = row.error_message
    /\ d.error_details = row.error_details
    /\ d.collection_id = row.collection_id
    /\ d.created_at = row.created_at

ScalarKeys ==
    { "id", "status", "crawler_id", "crawler_run", "content_hash",
      "foreign_id", "error_type", "error_message", "error_details",
      "collection_id", "created_at" }

OptionalKeys ==
    { "crawler_run", "content_hash", "foreign_id",
      "error_type", "error_message", "error_details" }

(* C11 as stated: the projection of a record has exactly the twelve keys   *)
(* id, status, crawler_id, crawler_run, content_hash, foreign_id,          *)
(* error_type, error_message, error_details, metadata, collection_id and   *)
(* created_at, and every key holds the value of the record's field.        *)
C11_ProjectionKeysMetadata ==
    res.op = "to_dict" =>
        /\ DOMAIN res.dict = ScalarKeys \cup { "metadata" }
        /\ SameFields(res.dict, ledger[res.id])
        /\ res.dict.metadata = ledger[res.id].meta

(* C11, amended: the twelfth key is meta. The projection has exactly the   *)
(* keys id, status, crawler_id, crawler_run, content_hash, foreign_id,     *)
(* error_type, error_message, error_details, meta, collection_id and       *)
(* created_at; every key holds the value of the record's field, and a      *)
(* field that is unset stays None (never the empty string).                *)
C11_ProjectionKeysMeta ==
    res.op = "to_dict" =>
        /\ DOMAIN res.dict = ScalarKeys \cup { "meta" }
        /\ SameFields(res.dict, ledger[res.id])
        /\ res.dict.meta = ledger[res.id].meta
        /\ \A k \in OptionalKeys : res.dict[k] # ""

(* the projection of a failure that was reported without message, details, *)
(* and of a success without foreign id                                     *)
C11_Witness ==
    /\ res.op = "to_dict"
    /\ IsFailure(res.id)
    /\ ledger[res.id].error_message = None
    /\ res.dict.error_message = None
    /\ res.dict.error_details = "trace"
    /\ res.dict.meta # NoMeta

ErrorFields(row) == <<row.error_type, row.error_message, row.error_details>>

StatsDone(p) == call[p].pc = "done"

(* the rows of the keys in V, as a table *)
TableOf(V) == [ i \in V |-> ledger[i] ]

(* the sets of rows process p could read at some moment of its call: at *)
(* least those it read in its first query, at most those it read in its *)
(* last (every set of rows a session could read during the call is one  *)
(* of these)                                                            *)
SnapshotsOf(p) ==
    { call[p].seen0 \cup X : X \in SUBSET (call[p].seen1 \ call[p].seen0) }

(* C13: under concurrent writes the whole result of Stats (running, the  *)
(* last run id and time, last.ok, last.fail, all.ok, all.fail) is Stats  *)
(* evaluated on one single state of the ledger that existed at a moment  *)
(* of the call.                                                          *)
C13_StatsIsSnapshot ==
    \A p \in Procs :
        StatsDone(p) =>
            \E V \in SnapshotsOf(p), t \in call[p].t0 .. now :
                \E lr \in LastRunResults(TableOf(V), call[p].crawler_id) :
                    session_stats_result(p) =
                        StatsOf(TableOf(V), call[p].crawler_id, t, lr)

(* C14: once store_stub has returned for crawler A, every Stats(A) that  *)
(* another caller starts afterwards within TIMEOUT reports running, with *)
(* no further step of the reporter.  (The clock starts at 0, so a call   *)
(* that begins before TIMEOUT is within TIMEOUT of every stub.)          *)
C14_StubSeenAtOnce ==
    \A p \in Procs :
        (call[p].pc # "idle" /\ call[p].stubbed0 /\ call[p].t0 < TIMEOUT)
            => call[p].running

(* the process that reported row i (each process reports its own run) *)
ReporterOf(i) == CHOOSE p \in Procs : RunOf(p) = ledger[i].crawler_run

(* C15: under any interleaving of the inserts of concurrent sessions     *)
(* every record has an id of its own, the ids grow in the order of       *)
(* insertion, and of two records of the same process the one of smaller  *)
(* id was not created later.                                             *)
C15_IdsDistinctAndGrowing ==
    \A i, j \in 1..Len(ledger) :
        /\ i # j => ledger[i].id # ledger[j].id
        /\ i < j => ledger[i].id < ledger[j].id
        /\ (ReporterOf(i) = ReporterOf(j) /\ ledger[i].id < ledger[j].id)
               => ledger[i].created_at <= ledger[j].created_at

(* p2's insert falls between two inserts of p1, the second an hour later *)
C15_Witness ==
    /\ Len(ledger) = 3
    /\ ReporterOf(1) = "p1" /\ ReporterOf(2) = "p2" /\ ReporterOf(3) = "p1"
    /\ ledger[1].created_at < ledger[3].created_at
    /\ ledger[2].id = 2

(* C16: the ledger does not keep two runs apart: store_stub is never     *)
(* refused, whatever the caller or anyone else has read or reported, so  *)
(* two callers that each saw running = false can each start a run.       *)
C16_StubNeverRefused ==
    \A p \in Procs :
        (call[p].pc # "count" /\ Added < MaxRecords)
            => ENABLED session_store_stub(p, 1, "crawlerA", RunOf(p))

(* both callers were told running = false, and then the stubs of run1 *)
(* and run2 were inserted and committed within TIMEOUT of each other  *)
C16_Witness ==
    /\ \A p \in Procs :
          /\ StatsDone(p)
          /\ call[p].crawler_id = "crawlerA"
          /\ ~ call[p].running
          /\ pending[p] = <<>> /\ txn[p] = {}
    /\ \E i, j \in 1..Len(ledger) :
          /\ i \notin call["p1"].seen1 \cup call["p2"].seen1
          /\ j \notin call["p1"].seen1 \cup call["p2"].seen1
          /\ IsStub(i) /\ IsStub(j)
          /\ ledger[i].crawler_id = "crawlerA"
          /\ ledger[j].crawler_id = "crawlerA"
          /\ ledger[i].crawler_run = "run1" /\ ledger[j].crawler_run = "run2"
          /\ ledger[j].created_at - ledger[i].created_at < TIMEOUT
          /\ ledger[i].created_at - ledger[j].created_at < TIMEOUT

(* scope, whatever reports were made.                                      *)
C17_CountsNotNegative ==
    \A c \in Crawlers :
        StatsReturned(c)
        => /\ res.stats.last.ok >= 0 /\ res.stats.last.fail >= 0
           /\ res.stats.all.ok >= 0 /\ res.stats.all.fail >= 0

-----------------------------------------------------------------------------
(* C18: Stats returns last.ok <= all.ok and last.fail <= all.fail.         *)
C18_LastWithinAll ==
    \A c \in Crawlers :
        StatsReturned(c)
        => /\ res.stats.last.ok <= res.stats.all.ok
           /\ res.stats.last.fail <= res.stats.all.fail

(* an older run has a failure that the last run has not *)
C18_Witness ==
    /\ StatsReturned("crawlerA")
    /\ res.stats.last.run_id = "run2"
    /\ Failures(RecordsOfRun("crawlerA", "run1")) = 1
    /\ res.stats.last.fail = 0
    /\ res.stats.all.fail = 1

-----------------------------------------------------------------------------
(* the ledger without the records of the crawlers other than c *)
OnlyOf(c) == [ i \in RecordsOf(c) |-> ledger[i] ]

(* C19: what LastRun and Stats return for a crawler is a result of the     *)
(* same query on the records of that crawler alone, at the same time: the  *)
(* records of other crawlers do not change it.                             *)
C19_OtherCrawlersDoNotCount ==
    \A c \in Crawlers :
        /\ LastRunReturned(c)
             => <<res.run_id, res.time>> \in LastRunResults(OnlyOf(c), c)
        /\ StatsReturned(c)
             => \E lr \in LastRunResults(OnlyOf(c), c) :
                    res.stats = StatsOf(OnlyOf(c), c, now, lr)

(* both crawlers have failures on record *)
C19_Witness ==
    /\ StatsReturned("crawlerA")
    /\ Failures(RecordsOf("crawlerB")) = 2
    /\ Failures(RecordsOf("crawlerA")) = 1
    /\ res.stats.last.run_id # None
    /\ res.stats.all.fail = 1

-----------------------------------------------------------------------------
(* the ledger when it held its first k records *)
Earlier(k) == SubSeq(ledger, 1, k)

(* the values of section 'all' that Stats could return on the ledger L *)
AllSections(L, c) ==
    { StatsOf(L, c, now, lr).all : lr \in LastRunResults(L, c) }

(* the newest record of c has no equal in created_at *)
NewestIsAlone(c) ==
    \A i \in RecordsOf(c) \ { Newest(c) } : ledger[i].created_at < LatestTime(c)

(* C20 as stated: no value of all.ok or all.fail that Stats returned when  *)
(* the ledger held fewer records is greater than the one it returns now    *)
(* (on a ledger where the most recent record is the only one of its time). *)
C20_AllNeverDecreases ==
    \A c \in Crawlers :
        (StatsReturned(c) /\ RecordsOf(c) # {} /\ NewestIsAlone(c))
        => \A k \in 0..Len(ledger) :
               \A before \in AllSections(Earlier(k), c) :
                   /\ before.ok <= res.stats.all.ok
                   /\ before.fail <= res.stats.all.fail

(* C20: when Stats finds a last run id, its all.fail is not less than any  *)
(* all.fail returned when the ledger held fewer records, and its all.ok is *)
(* not less than any all.ok returned then by a Stats that found a last run *)
(* id, and at most one less than the 0 returned by a Stats that found      *)
(* none.                                                                   *)
C20_AllNeverDecreasesWithRunId ==
    \A c \in Crawlers :
        (StatsReturned(c) /\ Truthy(res.stats.last.run_id))
        => \A k \in 0..Len(ledger) :
               \A lr \in LastRunResults(Earlier(k), c) :
                   LET before == StatsOf(Earlier(k), c, now, lr).all IN
                   /\ before.fail <= res.stats.all.fail
                   /\ Truthy(lr[1]) => before.ok <= res.stats.all.ok
                   /\ before.ok - 1 <= res.stats.all.ok

(* records were added since a Stats that returned less *)
C20_Witness ==
    /\ StatsReturned("crawlerA")
    /\ Truthy(res.stats.last.run_id)
    /\ res.stats.all = [ ok |-> 1, fail |-> 1 ]
    /\ \E lr \in LastRunResults(Earlier(1), "crawlerA") :
           /\ Truthy(lr[1])
           /\ StatsOf(Earlier(1), "crawlerA", now, lr).all
                  = [ ok |-> 0, fail |-> 0 ]

====
